---- MODULE Spec2Model ----
(***************************************************************************)
(* State-machine model of the LINE wakeup bot (src/index.js, the database  *)
(* variant of lines 1-682): the schedule store (memory or PostgreSQL),     *)
(* the admin command handler, the webhook handler, the per-minute          *)
(* scheduler job and the wake-up session timers.                           *)
(*                                                                         *)
(* Text is a sequence of characters, one string per character; the         *)
(* Japanese keyword characters are written by their readings ("JO" "GAI"   *)
(* is the two-character keyword of line 359).  Time is counted in slots of *)
(* SlotMinutes minutes; the scheduler job of line 611 runs at every slot   *)
(* boundary, timers are due at slot boundaries and timers due at the same  *)
(* boundary fire in either order.  Awaited network or database calls of a  *)
(* handler complete within the slot in which the handler started, but any  *)
(* due timer callback and any other handler may run while one is awaited.  *)
(***************************************************************************)
EXTENDS Integers, Sequences, FiniteSets, TLC

(* ---------------------------------------------------------------------- *)
(* Bounds of the model                                                     *)
(* ---------------------------------------------------------------------- *)
\* the clock stops at MaxHours o'clock of day 0; at most MaxEvents webhook
\* events are received
MaxHours == 10
MaxEvents == 2

\* the process is restarted at most MaxRestarts times
MaxRestarts == 1

(* ---------------------------------------------------------------------- *)
(* Program constants                                                       *)
(* ---------------------------------------------------------------------- *)
IntervalMinutes == 5
DeadlineMinutes == 60
MinutesPerHour == 60
HoursPerDay == 24
MaxHour == 23
DateLen == 10
DefaultHour == <<"8">>

\* one slot of model time is one period of the recurring prompt
SlotMinutes == IntervalMinutes
SlotsPerHour == MinutesPerHour \div SlotMinutes
SlotsPerDay == HoursPerDay * SlotsPerHour
IntervalSlots == IntervalMinutes \div SlotMinutes
DeadlineSlots == DeadlineMinutes \div SlotMinutes

(* ---------------------------------------------------------------------- *)
(* Characters and strings                                                  *)
(* ---------------------------------------------------------------------- *)
Digits == <<"0", "1", "2", "3", "4", "5", "6", "7", "8", "9">>

IsDigit(c) == \E i \in 1..Len(Digits) : Digits[i] = c

DigitVal(c) == (CHOOSE i \in 1..Len(Digits) : Digits[i] = c) - 1

\* JavaScript's undefined (an index past the end of an array, a missing key)
Undefined == <<"#undefined">>

\* !x for a string or undefined x
Falsy(x) == x = Undefined \/ x = <<>>

StartsWith(text, prefix) ==
  /\ Len(text) >= Len(prefix)
  /\ SubSeq(text, 1, Len(prefix)) = prefix

RECURSIVE SplitFrom(_, _, _)
\* text.split(sep) for a one-character sep: cur is the piece being read
SplitFrom(text, sep, cur) ==
  IF text = <<>> THEN <<cur>>
  ELSE IF Head(text) = sep
       THEN <<cur>> \o SplitFrom(Tail(text), sep, <<>>)
       ELSE SplitFrom(Tail(text), sep, Append(cur, Head(text)))

Split(text, sep) == SplitFrom(text, sep, <<>>)

\* parts[i] of a JavaScript array, 0-based
At(parts, i) == IF i + 1 <= Len(parts) THEN parts[i + 1] ELSE Undefined

RECURSIVE DigitsValue(_, _)
\* the value of a run of decimal digits, acc the value read so far
DigitsValue(ds, acc) ==
  IF ds = <<>> THEN acc
  ELSE DigitsValue(Tail(ds), acc * 10 + DigitVal(Head(ds)))

RECURSIVE DigitPrefix(_)
\* the longest prefix of s made of digits
DigitPrefix(s) ==
  IF s = <<>> \/ ~IsDigit(Head(s)) THEN <<>>
  ELSE <<Head(s)>> \o DigitPrefix(Tail(s))

AllDigits(s) == \A i \in 1..Len(s) : IsDigit(s[i])

AnyNonZero(s) == \E i \in 1..Len(s) : s[i] # "0"

\* /^\d{4}-\d{2}-\d{2}$/.test(date)
DateRegexTest(date) ==
  /\ Len(date) = DateLen
  /\ \A i \in {1, 2, 3, 4, 6, 7, 9, 10} : IsDigit(date[i])
  /\ date[5] = "-"
  /\ date[8] = "-"

NaN == [nan |-> TRUE, neg |-> FALSE, int |-> 0, frac |-> FALSE]

\* Number(s) of a string without blanks, exponent or radix prefix: an optional
\* sign, then digits with an optional fraction, or a fraction alone.  The value
\* is (-1)^neg * (int + a fraction that is non-zero iff frac).
ToNumber(s) ==
  IF s = Undefined THEN NaN
  ELSE IF s = <<>> THEN [nan |-> FALSE, neg |-> FALSE, int |-> 0, frac |-> FALSE]
  ELSE
    LET signed == Head(s) \in {"-", "+"}
        body == IF signed THEN Tail(s) ELSE s
        ip == DigitPrefix(body)
        rest == SubSeq(body, Len(ip) + 1, Len(body))
        fp == IF rest # <<>> /\ Head(rest) = "." THEN Tail(rest) ELSE <<>>
        wellFormed ==
          /\ body # <<>>
          /\ \/ rest = <<>>
             \/ Head(rest) = "." /\ AllDigits(fp) /\ (ip # <<>> \/ fp # <<>>)
    IN IF ~wellFormed THEN NaN
       ELSE [nan |-> FALSE, neg |-> Head(s) = "-",
             int |-> DigitsValue(ip, 0), frac |-> AnyNonZero(fp)]

\* isNaN(s)
IsNaN(s) == ToNumber(s).nan

\* s < k and s > k for a string s and an integer k >= 0 (false for NaN)
LessThan(s, k) ==
  LET n == ToNumber(s)
  IN ~n.nan /\ IF n.neg THEN n.int > 0 \/ n.frac \/ k > 0 ELSE n.int < k

GreaterThan(s, k) ==
  LET n == ToNumber(s)
  IN ~n.nan /\ ~n.neg /\ (n.int > k \/ (n.int = k /\ n.frac))

\* k === Number(s) for an integer k >= 0
NumberEquals(k, s) ==
  LET n == ToNumber(s)
  IN ~n.nan /\ ~n.frac /\ n.int = k /\ (n.neg => n.int = 0)

\* parseInt(s): an optional sign and the leading digits; [nan, value]
ParseInt(s) ==
  LET signed == s # <<>> /\ Head(s) \in {"-", "+"}
      ip == DigitPrefix(IF signed THEN Tail(s) ELSE s)
      v == DigitsValue(ip, 0)
  IN IF ip = <<>> THEN [nan |-> TRUE, value |-> 0]
     ELSE [nan |-> FALSE, value |-> IF Head(s) = "-" THEN 0 - v ELSE v]

RECURSIVE NatToString(_)
\* n.toString() for n >= 0
NatToString(n) ==
  IF n < 10 THEN <<Digits[n + 1]>>
  ELSE NatToString(n \div 10) \o <<Digits[(n % 10) + 1]>>

Pad2(n) == IF n < 10 THEN <<"0">> \o NatToString(n) ELSE NatToString(n)

(* ---------------------------------------------------------------------- *)
(* Configuration (environment variables) and calendar                      *)
(* ---------------------------------------------------------------------- *)
targetUserId == "target"

notifyUserIds == <<"r1", "r2">>

Users == {"target", "admin", "other"}

\* the values ADMIN_USER_IDS takes in the model: the target is an admin or not
AdminConfigs == {{"admin"}, {"admin", "target"}}

NotifySet == {notifyUserIds[i] : i \in 1..Len(notifyUserIds)}

ZeroToken == "00000000000000000000000000000000"

ReplyTokens == {ZeroToken, "rt"}

\* event.replyToken && event.replyToken !== '000...0'
UsableToken(replyToken) == replyToken # "" /\ replyToken # ZeroToken

\* now.format('YYYY-MM-DD'); day 0 of the model is 2025-06-01
FormatDate(day) == <<"2", "0", "2", "5", "-", "0", "6", "-">> \o Pad2(day + 1)

DayOf(t) == t \div SlotsPerDay

HourOf(t) == (t % SlotsPerDay) \div SlotsPerHour

MinuteOf(t) == (t % SlotsPerHour) * SlotMinutes

(* ---------------------------------------------------------------------- *)
(* Schedule store                                                          *)
(* ---------------------------------------------------------------------- *)
Includes(seq, x) == \E i \in 1..Len(seq) : seq[i] = x

RECURSIVE SetToSeq(_)
\* the rows of a query result, in some order
SetToSeq(S) ==
  IF S = {} THEN <<>>
  ELSE LET x == CHOOSE y \in S : TRUE IN <<x>> \o SetToSeq(S \ {x})

EmptyMemory == [excludeDates |-> <<>>, customTimes |-> <<>>]

EmptyTable == <<>>

\* a store is the pair of the memory storage and the schedule_settings table;
\* db is useDatabase, ok is whether the pool.query calls of the operation succeed
\* the store operations without the `throw error` of their catch blocks
ThrowsNever(db, ok) == FALSE

Throws(db, ok) == db /\ ~ok

loadSchedule(st, db, ok) ==
  IF ~db
  THEN [exclude |-> st.mem.excludeDates, change |-> st.mem.customTimes]
  ELSE IF ~ok THEN [exclude |-> <<>>, change |-> <<>>]
  ELSE LET t == st.tbl
           ex == {d \in DOMAIN t : t[d].is_excluded}
           ch == {d \in DOMAIN t : t[d].custom_hour # {}}
       IN [exclude |-> SetToSeq(ex),
           change |-> [d \in ch |->
                         NatToString(CHOOSE h \in t[d].custom_hour : TRUE)]]

\* addExcludeDate without the test of line 163: the date is always pushed
addExcludeDatePushes(st, db, ok, date) ==
  IF ~db THEN [st EXCEPT !.mem.excludeDates = Append(@, date)]
  ELSE IF ~ok THEN st
  ELSE IF date \in DOMAIN st.tbl
       THEN [st EXCEPT !.tbl[date].is_excluded = TRUE]
       ELSE [st EXCEPT !.tbl = [d \in DOMAIN @ \cup {date} |->
               IF d = date THEN [is_excluded |-> TRUE, custom_hour |-> {}]
               ELSE @[d]]]

addExcludeDate(st, db, ok, date) ==
  IF ~db
  THEN IF Includes(st.mem.excludeDates, date) THEN st
       ELSE [st EXCEPT !.mem.excludeDates = Append(@, date)]
  ELSE IF ~ok THEN st
  ELSE IF date \in DOMAIN st.tbl
       THEN [st EXCEPT !.tbl[date].is_excluded = TRUE]
       ELSE [st EXCEPT !.tbl = [d \in DOMAIN @ \cup {date} |->
               IF d = date THEN [is_excluded |-> TRUE, custom_hour |-> {}]
               ELSE @[d]]]

\* removeExcludeDate without its filter and its UPDATE
removeExcludeDateKeeps(st, db, ok, date) == st

removeExcludeDate(st, db, ok, date) ==
  IF ~db
  THEN [st EXCEPT !.mem.excludeDates = SelectSeq(@, LAMBDA d : d # date)]
  ELSE IF ~ok THEN st
  ELSE IF date \in DOMAIN st.tbl
       THEN [st EXCEPT !.tbl[date].is_excluded = FALSE]
       ELSE st

\* parseInt(hour) is not a number: the INTEGER parameter is refused by the server
CustomTimeRefused(hour) == ParseInt(hour).nan

\* setCustomTime whose upsert writes the whole row: is_excluded falls back
\* to its default
setCustomTimeWholeRow(st, db, ok, date, hour) ==
  IF ~db
  THEN [st EXCEPT !.mem.customTimes = [d \in DOMAIN @ \cup {date} |->
          IF d = date THEN hour ELSE @[d]]]
  ELSE IF ~ok \/ CustomTimeRefused(hour) THEN st
  ELSE [st EXCEPT !.tbl = [d \in DOMAIN @ \cup {date} |->
          IF d = date
          THEN [is_excluded |-> FALSE, custom_hour |-> {ParseInt(hour).value}]
          ELSE @[d]]]

setCustomTime(st, db, ok, date, hour) ==
  IF ~db
  THEN [st EXCEPT !.mem.customTimes = [d \in DOMAIN @ \cup {date} |->
          IF d = date THEN hour ELSE @[d]]]
  ELSE IF ~ok \/ CustomTimeRefused(hour) THEN st
  ELSE LET h == ParseInt(hour).value
       IN IF date \in DOMAIN st.tbl
          THEN [st EXCEPT !.tbl[date].custom_hour = {h}]
          ELSE [st EXCEPT !.tbl = [d \in DOMAIN @ \cup {date} |->
                  IF d = date THEN [is_excluded |-> FALSE, custom_hour |-> {h}]
                  ELSE @[d]]]


(* ---------------------------------------------------------------------- *)
(* Command texts                                                           *)
(* ---------------------------------------------------------------------- *)
Space == " "

\* the keywords of handleCommand, one string per character
KwList == <<"ICHI", "RAN">>

KwExclude == <<"JO", "GAI">>

KwUnexclude == <<"JO", "GAI", "SAKU", "JO">>

KwChange == <<"HEN", "KOU">>

KwHelpKana == <<"HE", "RU", "PU">>

KwHelp == <<"h", "e", "l", "p">>

Command1(kw, a) == kw \o <<Space>> \o a

Command2(kw, a, b) == kw \o <<Space>> \o a \o <<Space>> \o b

(* ---------------------------------------------------------------------- *)
(* handleCommand                                                           *)
(* ---------------------------------------------------------------------- *)
NoSchedule == [exclude |-> <<>>, change |-> <<>>]

\* the replyMessage call of one handleCommand run whose try block replies
\* with `kind`: none without a usable token (the call itself is taken to
\* succeed)
Reply(kind, replyToken) == IF UsableToken(replyToken) THEN <<kind>> ELSE <<>>

\* the replyMessage call of the catch block after a store operation threw
ErrorReply(replyToken) == IF UsableToken(replyToken) THEN <<"error">> ELSE <<>>

Outcome(st, replies, listed) == [st |-> st, replies |-> replies, listed |-> listed]

\* handleCommand without the check of line 324: every sender passes
isAdminAnyone(admins, userId) == TRUE

isAdmin(admins, userId) == userId \in admins

excludeCommand(st, db, writeOk, text, replyToken) ==
  LET date == At(Split(text, Space), 1)
  IN IF Falsy(date) \/ ~DateRegexTest(date)
     THEN Outcome(st, Reply("dateFormatError", replyToken), NoSchedule)
     ELSE IF Throws(db, writeOk)
     THEN Outcome(st, ErrorReply(replyToken), NoSchedule)
     ELSE Outcome(addExcludeDate(st, db, writeOk, date),
                  Reply("excludeAdded", replyToken), NoSchedule)

unexcludeCommand(st, db, writeOk, text, replyToken) ==
  LET date == At(Split(text, Space), 1)
  IN IF Throws(db, writeOk)
     THEN Outcome(st, ErrorReply(replyToken), NoSchedule)
     ELSE Outcome(removeExcludeDate(st, db, writeOk, date),
                  Reply("excludeRemoved", replyToken), NoSchedule)

\* the condition of line 400 under which the change command is refused
changeRejected(date, hour) ==
  \/ Falsy(date)
  \/ Falsy(hour)
  \/ ~DateRegexTest(date)
  \/ IsNaN(hour)
  \/ LessThan(hour, 0)
  \/ GreaterThan(hour, MaxHour)

changeCommand(st, db, writeOk, text, replyToken) ==
  LET parts == Split(text, Space)
      date == At(parts, 1)
      hour == At(parts, 2)
  IN IF changeRejected(date, hour)
     THEN Outcome(st, Reply("formatError", replyToken), NoSchedule)
     ELSE IF Throws(db, writeOk) \/ (db /\ CustomTimeRefused(hour))
     THEN Outcome(st, ErrorReply(replyToken), NoSchedule)
     ELSE Outcome(setCustomTime(st, db, writeOk, date, hour),
                  Reply("timeChanged", replyToken), NoSchedule)

handleCommand(admins, st, db, userId, text, replyToken, readOk, writeOk) ==
  IF ~isAdmin(admins, userId)
  THEN Outcome(st, Reply("refusal", replyToken), NoSchedule)
  ELSE IF text = KwList
  THEN Outcome(st, Reply("list", replyToken),
               IF UsableToken(replyToken) THEN loadSchedule(st, db, readOk)
               ELSE NoSchedule)
  ELSE IF StartsWith(text, KwExclude \o <<Space>>)
  THEN excludeCommand(st, db, writeOk, text, replyToken)
  ELSE IF StartsWith(text, KwUnexclude \o <<Space>>)
  THEN unexcludeCommand(st, db, writeOk, text, replyToken)
  ELSE IF StartsWith(text, KwChange \o <<Space>>)
  THEN changeCommand(st, db, writeOk, text, replyToken)
  ELSE IF text = KwHelpKana \/ text = KwHelp
  THEN Outcome(st, Reply("help", replyToken), NoSchedule)
  ELSE Outcome(st, <<>>, NoSchedule)

\* whether handleCommand waits for the network or the database before it
\* returns (logEvent and loadSchedule query the pool; replyMessage is a call
\* of the messaging API); otherwise it finishes without leaving the thread
commandAwaits(db, replies) == db \/ replies # <<>>


(* ---------------------------------------------------------------------- *)
(* Inputs of the model                                                     *)
(* ---------------------------------------------------------------------- *)
Today == FormatDate(0)

Tomorrow == FormatDate(1)

\* a date that is not zero-padded
BadDate == <<"2", "0", "2", "5", "-", "6", "-", "1">>

Ok == <<"o", "k">>

\* the senders, messages, reply tokens and failing sends of Spec: the
\* session engine, with the one command that moves today's start time
SessionUsers == {"target", "admin"}

SessionTexts == {Ok, Command2(KwChange, Today, <<"9">>)}

SessionTokens == {"rt"}

SessionFailures == SUBSET NotifySet

\* the same for SpecSchedule: the schedule commands and two other texts,
\* from an administrator and from a sender who is neither administrator nor
\* target, with and without a usable reply token
ScheduleUsers == {"admin", "other"}

ScheduleTexts ==
  {Ok,
   KwHelp,
   KwList,
   Command1(KwExclude, Today),
   Command1(KwUnexclude, Today),
   Command2(KwChange, Today, <<"7">>),
   Command2(KwChange, Today, <<"7", ":", "3", "0">>)}

ScheduleTokens == {ZeroToken, "rt"}

ScheduleFailures == {{}}

\* the exclude branch of the file-backed variant, lines 792-797, on the
\* exclude list of schedule.json
excludeFileBacked(exclude, dateStr) ==
  IF Includes(exclude, dateStr) THEN exclude ELSE Append(exclude, dateStr)

\* the same for SpecCommands: the command handler alone, for an
\* administrator and a stranger, with well-formed and malformed commands on
\* two dates
KwUnchange == <<"HEN", "KOU", "SAKU", "JO">>

KwUnoverride == <<"u", "n", "o", "v", "e", "r", "r", "i", "d", "e">>

CommandUsers == {"admin", "other"}

CommandHours ==
  {<<"9">>, <<"2", "3">>, <<"2", "4">>, <<"-", "1">>, <<"9", ".", "5">>, <<>>}

CommandTexts ==
  {KwList,
   Command1(KwExclude, Today),
   Command1(KwExclude, Tomorrow),
   Command1(KwExclude, BadDate),
   Command1(KwUnexclude, Today),
   Command1(KwUnexclude, BadDate),
   Command2(KwChange, BadDate, <<"9">>),
   Command1(KwUnchange, Today),
   Command1(KwUnoverride, Today)}
    \cup {Command2(KwChange, Today, h) : h \in CommandHours}

CommandTokens == {ZeroToken, "rt"}

\* outcomes of the pool.query calls of one operation: they cannot fail
\* when the database is not used
QueryOutcomes(db) == IF db THEN BOOLEAN ELSE {TRUE}

(* ---------------------------------------------------------------------- *)
(* State                                                                   *)
(* ---------------------------------------------------------------------- *)
VARIABLES
  now,             \* the clock, in slots since 00:00 of day 0
  useDatabase,     \* line 66, fixed once initializeDatabase has run
  adminUserIds,    \* line 62
  store,           \* [mem: memoryStorage (line 84), tbl: schedule_settings]
  hasResponded,    \* line 91
  intervalId,      \* line 90: the session whose setInterval was stored last
  intervals,       \* live setInterval timers: session -> slot it is due
  timeouts,        \* pending setTimeout deadlines: [session, due]
  sessions,        \* number of startWakeupMessages calls so far
  starting,        \* sessions suspended at `await sendWakeupMessage()`, line 282
  replying,        \* webhook handlers of the target suspended in handleCommand
  replyingBefore,  \* those of them whose message arrived before the last
                   \* session started
  prompts,         \* prompts[s]: pushMessage calls to the target by session s
  responded,       \* responded[s][r]: "responded" notices pushed to r while
                   \* s was the last session started (0: before any session)
  escalated,       \* escalated[s][r]: escalation notices pushed to r by the
                   \* deadline callback of session s
  lastReply,       \* the replyMessage calls of the last handleCommand run
  lastFanout,      \* the last fan-out: its kind, its session and the
                   \* recipients a pushMessage call was made for
  received,        \* webhook events received so far
  restarts         \* restarts of the process so far

vars ==
  <<now, useDatabase, adminUserIds, store, hasResponded, intervalId, intervals,
    timeouts, sessions, starting, replying, replyingBefore, prompts, responded,
    escalated, lastReply, lastFanout, received, restarts>>

NoTimer == 0

NoCounts == [r \in NotifySet |-> 0]

NoReply == [kinds |-> <<>>, listed |-> NoSchedule]

NoFanout == [kind |-> "none", session |-> 0, attempted |-> {}]

Init ==
  /\ now = 0
  /\ useDatabase \in BOOLEAN
  /\ adminUserIds \in AdminConfigs
  /\ store = [mem |-> EmptyMemory, tbl |-> EmptyTable]
  /\ hasResponded = FALSE
  /\ intervalId = NoTimer
  /\ intervals = <<>>
  /\ timeouts = {}
  /\ sessions = 0
  /\ starting = {}
  /\ replying = 0
  /\ replyingBefore = 0
  /\ prompts = <<>>
  /\ responded = [s \in {0} |-> NoCounts]
  /\ escalated = <<>>
  /\ lastReply = NoReply
  /\ lastFanout = NoFanout
  /\ received = 0
  /\ restarts = 0

(* ---------------------------------------------------------------------- *)
(* Timers                                                                  *)
(* ---------------------------------------------------------------------- *)
\* clearInterval(id): no effect when id is null or already cleared
clearInterval(live, id) == [i \in DOMAIN live \ {id} |-> live[i]]

setInterval(live, id, due) ==
  [i \in DOMAIN live \cup {id} |-> IF i = id THEN due ELSE live[i]]

Bump(counts, rs) == [r \in DOMAIN counts |-> IF r \in rs THEN counts[r] + 1 ELSE counts[r]]

RECURSIVE SentUntilFailure(_, _)
\* the recipients of the awaited pushMessage loop of lines 299-304: the loop
\* ends at the first call that fails
SentUntilFailure(ids, failed) ==
  IF ids = <<>> THEN {}
  ELSE IF Head(ids) \in failed THEN {Head(ids)}
  ELSE {Head(ids)} \cup SentUntilFailure(Tail(ids), failed)

\* the recipients of Promise.all(notifyUserIds.map(pushMessage)), lines 494-499:
\* every call is made before any is awaited
SentConcurrently(ids, failed) == {ids[i] : i \in 1..Len(ids)}

\* The next instant at which the scheduler job is looked at: the next slot
\* while a timer is pending, else the next full hour (the job of line 611
\* changes nothing at a minute other than 0, line 627).
NextTime ==
  IF DOMAIN intervals # {} \/ timeouts # {} THEN now + 1
  ELSE ((now \div SlotsPerHour) + 1) * SlotsPerHour

DueTimers ==
  \/ \E i \in DOMAIN intervals : intervals[i] <= now
  \/ \E t \in timeouts : t.due <= now

(* ---------------------------------------------------------------------- *)
(* Session: startWakeupMessages and its callbacks                          *)
(* ---------------------------------------------------------------------- *)
\* line 619-627: whether the job that runs at slot t starts a session
jobStarts(schedule, t) ==
  LET today == FormatDate(DayOf(t))
      startHour == IF today \in DOMAIN schedule.change
                      /\ ~Falsy(schedule.change[today])
                   THEN schedule.change[today] ELSE DefaultHour
  IN /\ ~Includes(schedule.exclude, today)
     /\ NumberEquals(HourOf(t), startHour)
     /\ MinuteOf(t) = 0

\* The clock reaches the next slot and the scheduler job of line 611 runs:
\* it loads the schedule and, on a match, runs startWakeupMessages up to its
\* first await (hasResponded = false and the first pushMessage), whether or
\* not a webhook handler is suspended.  The clock of the model stops at slot
\* `horizon`.
scheduleJob(readOk, horizon) ==
  /\ NextTime <= horizon
  /\ ~DueTimers
  /\ starting = {}
  /\ now' = NextTime
  /\ IF jobStarts(loadSchedule(store, useDatabase, readOk), NextTime)
     THEN /\ sessions' = sessions + 1
          /\ hasResponded' = FALSE
          /\ prompts' = Append(prompts, 1)
          /\ escalated' = Append(escalated, NoCounts)
          /\ responded' = [s \in 0..(sessions + 1) |->
                             IF s <= sessions THEN responded[s] ELSE NoCounts]
          /\ starting' = {sessions + 1}
          /\ replyingBefore' = replying
     ELSE UNCHANGED <<sessions, hasResponded, prompts, escalated, responded, starting,
                      replyingBefore>>
  /\ UNCHANGED <<useDatabase, adminUserIds, restarts, store, intervalId, intervals, timeouts,
                 replying, lastReply, lastFanout, received>>

\* startWakeupMessages resumes after the first prompt: lines 285-311
startTimers(s) ==
  /\ s \in starting
  /\ starting' = starting \ {s}
  /\ intervalId' = s
  /\ intervals' = setInterval(intervals, s, now + IntervalSlots)
  /\ timeouts' = timeouts \cup {[session |-> s, due |-> now + DeadlineSlots]}
  /\ UNCHANGED <<now, useDatabase, adminUserIds, restarts, store, hasResponded, sessions,
                 replying, replyingBefore, prompts, responded, escalated, lastReply,
                 lastFanout, received>>

\* the setInterval callback of lines 285-289
onInterval(i) ==
  /\ i \in DOMAIN intervals
  /\ intervals[i] <= now
  /\ intervals' = [intervals EXCEPT ![i] = @ + IntervalSlots]
  /\ prompts' = IF ~hasResponded THEN [prompts EXCEPT ![i] = @ + 1] ELSE prompts
  /\ UNCHANGED <<now, useDatabase, adminUserIds, restarts, store, hasResponded, intervalId,
                 timeouts, sessions, starting, replying, replyingBefore, responded,
                 escalated, lastReply, lastFanout, received>>

\* the setTimeout callback of lines 292-311
onTimeout(t, failed) ==
  /\ t \in timeouts
  /\ t.due <= now
  /\ timeouts' = timeouts \ {t}
  /\ intervals' = clearInterval(intervals, intervalId)
  /\ IF ~hasResponded
     THEN LET sent == SentUntilFailure(notifyUserIds, failed)
          IN /\ escalated' = [escalated EXCEPT ![t.session] = Bump(@, sent)]
             /\ lastFanout' = [kind |-> "timeout", session |-> t.session,
                               attempted |-> sent]
     ELSE UNCHANGED <<escalated, lastFanout>>
  /\ UNCHANGED <<now, useDatabase, adminUserIds, restarts, store, hasResponded, intervalId,
                 sessions, starting, replying, replyingBefore, prompts, responded,
                 lastReply, received>>


(* ---------------------------------------------------------------------- *)
(* Webhook                                                                 *)
(* ---------------------------------------------------------------------- *)
\* lines 486-507: the target's message is taken as the reply
markResponded(failed) ==
  LET sent == SentConcurrently(notifyUserIds, failed)
  IN /\ hasResponded' = TRUE
     /\ intervals' = clearInterval(intervals, intervalId)
     /\ responded' = [responded EXCEPT ![sessions] = Bump(@, sent)]
     /\ lastFanout' = [kind |-> "responded", session |-> sessions,
                       attempted |-> sent]

\* the test of line 484 with every sender taken for the target
isTargetAnyone(userId) == TRUE

\* line 484: the sender of the event is the target
isTarget(userId) == userId = targetUserId

\* lines 477-508 for one text message event: handleCommand runs first; the
\* target's handler then marks the reply, at once when handleCommand did not
\* wait and in targetReply when it did
handleEvent(userId, text, replyToken, queryOk, failed) ==
  /\ received < MaxEvents
  /\ received' = received + 1
  /\ \E out \in {handleCommand(adminUserIds, store, useDatabase, userId, text,
                              replyToken, queryOk, queryOk)} :
        /\ store' = out.st
        /\ lastReply' = [kinds |-> out.replies, listed |-> out.listed]
        /\ IF ~isTarget(userId)
           THEN UNCHANGED <<hasResponded, intervals, responded, lastFanout, replying>>
           ELSE IF commandAwaits(useDatabase, out.replies)
           THEN /\ replying' = replying + 1
                /\ UNCHANGED <<hasResponded, intervals, responded, lastFanout>>
           ELSE /\ markResponded(failed)
                /\ UNCHANGED replying
  /\ UNCHANGED <<now, useDatabase, adminUserIds, restarts, intervalId, timeouts, sessions,
                 starting, replyingBefore, prompts, escalated>>

\* a handler of the target resumes after `await handleCommand(event)`, line
\* 484; the suspended handlers resume in any order
targetReply(failed) ==
  /\ replying > 0
  /\ replying' = replying - 1
  /\ \/ /\ replyingBefore > 0
        /\ replyingBefore' = replyingBefore - 1
     \/ /\ replying > replyingBefore
        /\ UNCHANGED replyingBefore
  /\ markResponded(failed)
  /\ UNCHANGED <<now, useDatabase, adminUserIds, restarts, store, intervalId, timeouts,
                 sessions, starting, prompts, escalated, lastReply, received>>

\* lines 509-517: follow, unfollow and other events are only logged
otherEvent(userId) ==
  /\ received < MaxEvents
  /\ received' = received + 1
  /\ UNCHANGED <<now, useDatabase, adminUserIds, restarts, store, hasResponded, intervalId,
                 intervals, timeouts, sessions, starting, replying, replyingBefore,
                 prompts, responded, escalated, lastReply, lastFanout>>

\* the process ends (lines 664-680, or a crash) and is started again, lines
\* 60-91 and startServer: the module state is built anew and no timer or
\* handler of the old process is left; the table of the database stays.
\* initOk is whether the CREATE TABLE queries of initializeDatabase succeed:
\* when they fail the new process uses the memory storage (lines 124-128).
restart(initOk) ==
  /\ restarts < MaxRestarts
  /\ restarts' = restarts + 1
  /\ useDatabase' = (useDatabase /\ initOk)
  /\ store' = [store EXCEPT !.mem = EmptyMemory]
  /\ hasResponded' = FALSE
  /\ intervalId' = NoTimer
  /\ intervals' = <<>>
  /\ timeouts' = {}
  /\ starting' = {}
  /\ replying' = 0
  /\ replyingBefore' = 0
  /\ UNCHANGED <<now, adminUserIds, sessions, prompts, responded, escalated,
                 lastReply, lastFanout, received>>

\* the steps of the program, for the environment that sends text messages
\* of `texts` from `users` with reply tokens of `tokens` and in which the
\* sends of a fan-out to the recipients of one set of `failures` fail, up
\* to the slot `horizon` of the clock
Step(users, texts, tokens, failures, horizon) ==
  \/ \E readOk \in QueryOutcomes(useDatabase) : scheduleJob(readOk, horizon)
  \/ \E s \in starting : startTimers(s)
  \/ \E i \in DOMAIN intervals : onInterval(i)
  \/ \E t \in timeouts, failed \in failures : onTimeout(t, failed)
  \/ \E userId \in users, text \in texts, replyToken \in tokens :
       \E queryOk \in QueryOutcomes(useDatabase),
          failed \in IF userId = targetUserId THEN failures ELSE {{}} :
         handleEvent(userId, text, replyToken, queryOk, failed)
  \/ \E failed \in failures : targetReply(failed)
  \/ \E userId \in users : otherEvent(userId)

Next ==
  Step(SessionUsers, SessionTexts, SessionTokens, SessionFailures,
       MaxHours * SlotsPerHour)

Spec == Init /\ [][Next]_vars

\* the steps of the program while the target sends nothing: administrators
\* and strangers send the commands of ScheduleTexts
NextSchedule ==
  \/ \E readOk \in QueryOutcomes(useDatabase) :
       scheduleJob(readOk, MaxHours * SlotsPerHour)
  \/ \E s \in starting : startTimers(s)
  \/ \E i \in DOMAIN intervals : onInterval(i)
  \/ \E t \in timeouts, failed \in ScheduleFailures : onTimeout(t, failed)
  \/ \E userId \in ScheduleUsers, text \in ScheduleTexts,
        replyToken \in ScheduleTokens, queryOk \in QueryOutcomes(useDatabase),
        failed \in ScheduleFailures :
       handleEvent(userId, text, replyToken, queryOk, failed)

SpecSchedule == Init /\ [][NextSchedule]_vars

\* the texts of SpecWebhook: one that is no command and one that is
WebhookTexts == {Ok, KwHelp}

\* the steps of the program when every sender sends text messages and other
\* events and every send of a fan-out succeeds
NextWebhook ==
  Step(Users, WebhookTexts, SessionTokens, {{}}, MaxHours * SlotsPerHour)

SpecWebhook == Init /\ [][NextWebhook]_vars

\* the command handler and the restart of the process, the clock standing
\* still: administrators and strangers send the commands of CommandTexts
NextCommands ==
  \/ \E userId \in CommandUsers, text \in CommandTexts,
        replyToken \in CommandTokens, queryOk \in QueryOutcomes(useDatabase) :
       handleEvent(userId, text, replyToken, queryOk, {})
  \/ \E initOk \in QueryOutcomes(useDatabase) : restart(initOk)

SpecCommands == Init /\ [][NextCommands]_vars

(* ---------------------------------------------------------------------- *)
(* Properties of the session engine (checked under Spec)                   *)
(* ---------------------------------------------------------------------- *)
\* the deadline callback of session s has not run yet
Pending(s) == \E t \in timeouts : t.session = s

\* session s has created its timers and its deadline callback has run
Finished(s) == s \in 1..sessions /\ s \notin starting /\ ~Pending(s)

\* the number of prompts of a session that is never answered: one at the
\* start and one per period up to the deadline
FullPrompts == (DeadlineSlots \div IntervalSlots) + 1

\* C1: whenever a reply of the target has been processed in a session whose
\* deadline has not run yet, every recipient has received exactly one
\* "responded" notice for that session and no escalation notice, however
\* many messages the target has sent.
C1_OneRespondedNotice ==
  \A s \in 1..sessions, r \in NotifySet :
    (Pending(s) /\ responded[s][r] > 0)
      => (responded[s][r] = 1 /\ escalated[s][r] = 0)

\* C2: a session in which the target never replies has sent, once its
\* deadline callback has run, exactly 13 prompts and exactly one escalation
\* notice to every recipient, in either order of the tick and the deadline
\* callback due at +60 minutes.
C2_ThirteenPrompts ==
  \A s \in 1..sessions :
    (/\ sessions = 1
     /\ Finished(s)
     /\ replying = 0
     /\ \A r \in NotifySet : responded[s][r] = 0)
      => (/\ prompts[s] = FullPrompts
          /\ \A r \in NotifySet : escalated[s][r] = 1)

\* C3: once a reply of the target has been processed in a session, the
\* recurring timer of that session sends no further prompt, in every
\* interleaving of its ticks with the reply.
C3_NoPromptAfterReply ==
  [][\A s \in 1..sessions :
       (\A r \in NotifySet : responded[s][r] > 0) => prompts'[s] = prompts[s]]_vars

\* C4: while a message of the target has been delivered to the webhook
\* handler and is not yet marked (the handler awaits handleCommand), no
\* escalation notice is sent.
C4_RespondedWins == [][replying > 0 => escalated' = escalated]_vars

\* C5: in every state at most one recurring-prompt timer is live and at most
\* one deadline timer is pending.
C5_AtMostOneSession ==
  /\ Cardinality(DOMAIN intervals) <= 1
  /\ Cardinality(timeouts) <= 1

\* C8: in every fan-out, of either kind, a send is attempted to every
\* recipient of the notify list, whichever sends fail.
C8_AllRecipientsAttempted ==
  lastFanout.kind # "none" => lastFanout.attempted = NotifySet

\* the last session started is Active: it has not been answered and its
\* deadline callback has not run
Active ==
  /\ sessions > 0
  /\ ~hasResponded
  /\ sessions \in starting \/ Pending(sessions)

\* this step processes a reply of the target: it sends "responded" notices
ReplyProcessed == responded' # responded

\* C16: a reply of the target is processed, and "responded" notices are
\* sent, only while a session is Active.
C16_ReplyOnlyWhileActive == [][ReplyProcessed => Active]_vars

\* C17: in the state after a reply of the target is processed neither the
\* recurring timer nor the deadline timer of the session is pending.
C17_ReplyCancelsBothTimers ==
  [][ReplyProcessed
       => /\ sessions \notin DOMAIN intervals'
          /\ ~\E t \in timeouts' : t.session = sessions]_vars

\* C20: no recurring timer created by a session is live after the deadline
\* callback of that session has run.
C20_NoTimerPastDeadline ==
  \A i \in DOMAIN intervals : Pending(i)

\* this step runs the deadline callback of session s
DeadlineRuns(s) == \E t \in timeouts : t.session = s /\ t \notin timeouts'

\* C22: the deadline callback of a session clears the recurring timer of no
\* other session, and sends escalation notices only when no reply of the
\* target was processed since that session started.
C22_DeadlineOfItsSession ==
  [][\A s \in 1..sessions :
       DeadlineRuns(s)
         => /\ (DOMAIN intervals) \ {s} \subseteq DOMAIN intervals'
            /\ escalated' # escalated
                 => \A r \in NotifySet : responded[s][r] = 0]_vars

\* C23: on one date the scheduler job starts at most one session, whatever
\* change commands are sent during the date (the clock of the model stays
\* within day 0).
C23_OneSessionPerDate == DayOf(now) = 0 => sessions <= 1

\* C24: a message that the target sent before the last session started does
\* not count for that session: when the handler of such a message resumes,
\* a session that was not marked responded stays so.
C24_EarlierReplyNotCounted ==
  [][(replyingBefore' < replyingBefore /\ ~hasResponded) => ~hasResponded']_vars

\* this step is the webhook handler of a text message of userId
TextEvent(userId) ==
  /\ received' = received + 1
  /\ \E text \in WebhookTexts, replyToken \in SessionTokens,
        queryOk \in QueryOutcomes(useDatabase) :
       handleEvent(userId, text, replyToken, queryOk, {})

\* C25: only a text message of the target marks a session responded.  A text
\* message of any other sender and a follow, unfollow or other event of any
\* sender leave hasResponded, the recurring timers and the "responded"
\* notices as they were; a text message of the target, whatever its text and
\* whether or not the target is an administrator, sets hasResponded and
\* clears the recurring timer, at once or when its suspended handler resumes.
C25_OnlyTargetTextResponds ==
  [][/\ \A userId \in Users \ {targetUserId} :
          TextEvent(userId) => UNCHANGED <<hasResponded, intervals, responded>>
     /\ \A userId \in Users :
          otherEvent(userId) => UNCHANGED <<hasResponded, intervals, responded>>
     /\ TextEvent(targetUserId)
          => (\/ replying' = replying + 1
              \/ hasResponded' /\ intervalId \notin DOMAIN intervals')
     /\ (replying' < replying /\ restarts' = restarts)
          => (hasResponded' /\ intervalId \notin DOMAIN intervals')]_vars

\* the target, an administrator, has replied in session 1 and a later text
\* message of a sender who is no administrator was refused: the session is
\* still marked responded by the one fan-out of the target's reply
C25_Witness ==
  /\ targetUserId \in adminUserIds
  /\ sessions = 1
  /\ hasResponded
  /\ lastFanout.kind = "responded"
  /\ lastFanout.session = 1
  /\ \A r \in NotifySet : responded[1][r] = 1
  /\ lastReply.kinds = <<"refusal">>
  /\ received = MaxEvents

(* ---------------------------------------------------------------------- *)
(* Properties of the schedule (checked under SpecSchedule)                 *)
(* ---------------------------------------------------------------------- *)
\* an exclusion is recorded for date d in the store
Excluded(st, db, d) ==
  IF db THEN d \in DOMAIN st.tbl /\ st.tbl[d].is_excluded
  ELSE Includes(st.mem.excludeDates, d)

\* an override is recorded for date d in the store
Overridden(st, db, d) ==
  IF db THEN d \in DOMAIN st.tbl /\ st.tbl[d].custom_hour # {}
  ELSE d \in DOMAIN st.mem.customTimes

\* the start hour recorded for date d: its override, or the default
RecordedHour(st, db, d) ==
  IF ~Overridden(st, db, d) THEN DefaultHour
  ELSE IF db THEN NatToString(CHOOSE h \in st.tbl[d].custom_hour : TRUE)
  ELSE st.mem.customTimes[d]

\* this step starts a session
SessionStarts == sessions' = sessions + 1

\* this step handles a `list` command and replies to it
ListReplied == received' = received + 1 /\ lastReply'.kinds = <<"list">>

ChangeHalfPast == Command2(KwChange, Today, <<"7", ":", "3", "0">>)

\* C6: on a date that has an exclusion recorded no session is started,
\* whether or not the read of the store succeeds, and the reply to `list`
\* reports the date among the exclusions.
C6_ExcludedDateStartsNothing ==
  [][Excluded(store, useDatabase, FormatDate(DayOf(now')))
       => /\ ~SessionStarts
          /\ ListReplied
               => Includes(lastReply'.listed.exclude, FormatDate(DayOf(now')))]_vars

\* C7: handling a text message of a sender who is not an administrator
\* leaves the schedule store as it was, whatever the text, and the sender is
\* sent the refusal message when the event carries a usable reply token and
\* nothing otherwise.
C7_NonAdminRefused ==
  [][\A u \in ScheduleUsers \ adminUserIds, text \in ScheduleTexts,
        tok \in ScheduleTokens, q \in QueryOutcomes(useDatabase),
        f \in ScheduleFailures :
       handleEvent(u, text, tok, q, f)
         => /\ store' = store
            /\ lastReply'.kinds
                 = IF UsableToken(tok) THEN <<"refusal">> ELSE <<>>]_vars

\* C7 witness: the store holds an exclusion or an override and the last
\* text message handled was answered with the refusal.
C7_Witness ==
  /\ lastReply.kinds = <<"refusal">>
  /\ Excluded(store, useDatabase, Today) \/ Overridden(store, useDatabase, Today)

\* C7 as stated: handling a text message of a sender who is not an
\* administrator leaves the store as it was and the sender is sent the
\* refusal message, whatever the event.
C7_RefusalAlways ==
  [][\A u \in ScheduleUsers \ adminUserIds, text \in ScheduleTexts,
        tok \in ScheduleTokens, q \in QueryOutcomes(useDatabase),
        f \in ScheduleFailures :
       handleEvent(u, text, tok, q, f)
         => /\ store' = store
            /\ lastReply'.kinds = <<"refusal">>]_vars

\* C9: the command `change 2025-06-01 7:30` of an administrator, its store
\* queries succeeding, is accepted and records an override for that date.
C9_HalfPastOverride ==
  [][\A tok \in ScheduleTokens :
       handleEvent("admin", ChangeHalfPast, tok, TRUE, {})
         => /\ lastReply'.kinds = Reply("timeChanged", tok)
            /\ Overridden(store', useDatabase, Today)]_vars

\* C10: on a date without exclusion a session starts only at the hour
\* recorded for that date: the hour of its override, 08:00 without one.
C10_OverrideResolves ==
  [][(SessionStarts /\ ~Excluded(store, useDatabase, FormatDate(DayOf(now'))))
       => NumberEquals(HourOf(now'),
                       RecordedHour(store, useDatabase, FormatDate(DayOf(now'))))]_vars

\* the well-formed mutation commands of ScheduleTexts
MutationCommands ==
  {Command1(KwExclude, Today),
   Command1(KwUnexclude, Today),
   Command2(KwChange, Today, <<"7">>)}

\* the state of the sessions: the flag, the timers and what has been sent
sessionState ==
  <<hasResponded, intervalId, intervals, timeouts, sessions, starting,
    replying, prompts, responded, escalated, lastFanout>>

CommandDates == {Today, Tomorrow}

\* C11: from every store, after addExcludeDate(d) the date d is excluded,
\* after removeExcludeDate(d) on the result it is not, and every other date
\* is excluded after the two operations iff it was before.
C11_ExcludeRoundTrip ==
  \A d \in CommandDates :
    LET added == addExcludeDate(store, useDatabase, TRUE, d)
        removed == removeExcludeDate(added, useDatabase, TRUE, d)
    IN /\ Excluded(added, useDatabase, d)
       /\ ~Excluded(removed, useDatabase, d)
       /\ \A e \in CommandDates \ {d} :
            Excluded(removed, useDatabase, e) <=> Excluded(store, useDatabase, e)

\* C11 witness: in database mode the row of today, created by the exclude
\* command, has had its exclusion removed by the unexclude command.
C11_Witness ==
  /\ useDatabase
  /\ received = 2
  /\ lastReply.kinds = <<"excludeRemoved">>
  /\ Today \in DOMAIN store.tbl
  /\ ~store.tbl[Today].is_excluded
  /\ store.tbl[Today].custom_hour = {}

\* the hours the change command accepts among CommandHours
AcceptedHours == {h \in CommandHours : ~changeRejected(Today, h)}

\* C12: from every store, each mutation applied twice in a row gives the
\* store that applying it once gives: the same exclusion list, without a
\* duplicate, and the same overrides.
C12_MutationsIdempotent ==
  \A d \in CommandDates :
    LET db == useDatabase
        add1 == addExcludeDate(store, db, TRUE, d)
        rem1 == removeExcludeDate(store, db, TRUE, d)
        file1 == excludeFileBacked(store.mem.excludeDates, d)
    IN /\ addExcludeDate(add1, db, TRUE, d) = add1
       /\ removeExcludeDate(rem1, db, TRUE, d) = rem1
       /\ excludeFileBacked(file1, d) = file1
       /\ \A h \in AcceptedHours :
            LET set1 == setCustomTime(store, db, TRUE, d, h)
            IN setCustomTime(set1, db, TRUE, d, h) = set1

\* C12 witness: the memory storage already holds the exclusion and an
\* override of today, recorded by two commands.
C12_Witness ==
  /\ ~useDatabase
  /\ received = 2
  /\ store.mem.excludeDates = <<Today>>
  /\ Today \in DOMAIN store.mem.customTimes

\* the mutation commands whose date does not match the date pattern
BadDateCommands ==
  {Command1(KwExclude, BadDate),
   Command1(KwUnexclude, BadDate),
   Command2(KwChange, BadDate, <<"9">>)}

\* C13: a mutation command of an administrator whose date does not match
\* the date pattern is answered with a validation error and leaves the
\* store as it was.
C13_BadDateRejected ==
  [][\A text \in BadDateCommands, q \in QueryOutcomes(useDatabase) :
       handleEvent("admin", text, "rt", q, {})
         => /\ store' = store
            /\ lastReply'.kinds \in {<<"dateFormatError">>, <<"formatError">>}]_vars

\* the string s denotes an integer hour of the day
IsHour(s) ==
  LET n == ToNumber(s)
  IN ~Falsy(s) /\ ~n.nan /\ ~n.frac /\ ~n.neg /\ n.int <= MaxHour

\* C14: every override recorded in the store, in the memory storage or in
\* the table, is an integer hour in 0..23.
C14_OverridesAreHours ==
  /\ \A d \in DOMAIN store.mem.customTimes : IsHour(store.mem.customTimes[d])
  /\ \A d \in DOMAIN store.tbl :
       \A h \in store.tbl[d].custom_hour : h \in 0..MaxHour

\* C15: every exclusion and every override recorded before the process is
\* restarted is recorded in the store that the new process reads.
C15_MutationsSurviveRestart ==
  [][restarts' = restarts + 1
       => \A d \in CommandDates :
            /\ Excluded(store, useDatabase, d) => Excluded(store', useDatabase', d)
            /\ Overridden(store, useDatabase, d)
                 => /\ Overridden(store', useDatabase', d)
                    /\ RecordedHour(store', useDatabase', d)
                         = RecordedHour(store, useDatabase, d)]_vars

\* C18: when an override is recorded for today, a command of the
\* administrator on today (the removal of the override, under either of its
\* names, or any other command of CommandTexts) removes it and leaves the
\* exclusion of today as it is.
C18_OverrideRemovable ==
  Overridden(store, useDatabase, Today)
    => \E text \in CommandTexts :
         LET out == handleCommand(adminUserIds, store, useDatabase, "admin",
                                  text, "rt", TRUE, TRUE)
         IN /\ ~Overridden(out.st, useDatabase, Today)
            /\ Excluded(out.st, useDatabase, Today)
                 <=> Excluded(store, useDatabase, Today)

\* what the store records for date d: its exclusion and its override
Entry(st, db, d) ==
  <<Excluded(st, db, d), Overridden(st, db, d), RecordedHour(st, db, d)>>

\* C21: from every store, with either backend, removeExcludeDate(d) and
\* addExcludeDate(d) leave the override of d as it is, setCustomTime(d, h)
\* leaves the exclusion of d as it is, and each of them leaves the entry of
\* every other date as it is.
C21_OneFieldOfOneDate ==
  \A d \in CommandDates :
    LET db == useDatabase
        added == addExcludeDate(store, db, TRUE, d)
        removed == removeExcludeDate(store, db, TRUE, d)
        SameOverride(st) ==
          /\ Overridden(st, db, d) <=> Overridden(store, db, d)
          /\ RecordedHour(st, db, d) = RecordedHour(store, db, d)
        SameOthers(st) ==
          \A e \in CommandDates \ {d} : Entry(st, db, e) = Entry(store, db, e)
    IN /\ SameOverride(added) /\ SameOthers(added)
       /\ SameOverride(removed) /\ SameOthers(removed)
       /\ \A h \in AcceptedHours :
            LET set == setCustomTime(store, db, TRUE, d, h)
            IN /\ Excluded(set, db, d) <=> Excluded(store, db, d)
               /\ SameOthers(set)

\* C21 witness: with the database, the row of today holds an exclusion and
\* an override, recorded by two commands.
C21_Witness ==
  /\ useDatabase
  /\ Today \in DOMAIN store.tbl
  /\ store.tbl[Today].is_excluded
  /\ store.tbl[Today].custom_hour # {}

====
